---------------------------- MODULE Spec2Model ----------------------------
(***************************************************************************)
(* A model of the async TCP port scanner of src/main.py:                   *)
(*   parse_ports   - the port specification parser (a pure function),      *)
(*   try_connect   - one probe: connect, optional banner attempt, close,   *)
(*   scan_host     - the coordinator: semaphore, worker tasks,             *)
(*                   as_completed consumption, OPEN lines,                 *)
(*   main_async    - the run driver: parse, then one scan per host.        *)
(*                                                                         *)
(* The event loop is cooperative: a step of the model is what one task     *)
(* runs from one suspension point (an await that waits on the peer or on   *)
(* a timer) to the next.  What the peer, the resolver and the transport    *)
(* answer is the environment's choice.                                     *)
(***************************************************************************)
EXTENDS Integers, Sequences, FiniteSets, TLC

(***************************************************************************)
(* Bounds of the model.                                                    *)
(***************************************************************************)
MaxPorts == 2
MaxConc == 2
MaxHosts == 2
MaxTokens == 2

(***************************************************************************)
(* Program constants.                                                      *)
(***************************************************************************)
MinPort == 1
MaxPort == 65535

\* HTTP_PORTS without 8080.
HttpPortsWithout8080 == {80, 8000, 443, 8443}

HTTP_PORTS == {80, 8080, 8000, 443, 8443}

(***************************************************************************)
(* Text.  A str is a sequence of one-character strings; bytes are a        *)
(* sequence of byte values 0..255.                                         *)
(***************************************************************************)
Digits == {"0", "1", "2", "3", "4", "5", "6", "7", "8", "9"}

DigitVal(c) ==
    CASE c = "0" -> 0 [] c = "1" -> 1 [] c = "2" -> 2 [] c = "3" -> 3
      [] c = "4" -> 4 [] c = "5" -> 5 [] c = "6" -> 6 [] c = "7" -> 7
      [] c = "8" -> 8 [] c = "9" -> 9

\* The characters str.strip() and int() treat as whitespace (those used here).
StrWhitespace == {" ", "\t", "\n", "\r"}

RECURSIVE LStrip(_)
LStrip(s) ==
    IF s # <<>> /\ Head(s) \in StrWhitespace THEN LStrip(Tail(s)) ELSE s

RECURSIVE RStrip(_)
RStrip(s) ==
    IF s # <<>> /\ s[Len(s)] \in StrWhitespace
    THEN RStrip(SubSeq(s, 1, Len(s) - 1))
    ELSE s

\* str.strip()
Strip(s) == RStrip(LStrip(s))

\* Index of the first occurrence of character c in s, 0 when there is none.
RECURSIVE FindFrom(_, _, _)
FindFrom(s, c, k) ==
    IF k > Len(s) THEN 0
    ELSE IF s[k] = c THEN k
    ELSE FindFrom(s, c, k + 1)

Find(s, c) == FindFrom(s, c, 1)

\* str.split(c): the pieces between the occurrences of c (always at least one).
RECURSIVE Split(_, _)
Split(s, c) ==
    LET k == Find(s, c) IN
    IF k = 0 THEN <<s>>
    ELSE <<SubSeq(s, 1, k - 1)>> \o Split(SubSeq(s, k + 1, Len(s)), c)

\* str.split(c, 1): cut at the first occurrence of c (the caller knows c is in s).
SplitOnce(s, c) ==
    LET k == Find(s, c) IN
    <<SubSeq(s, 1, k - 1), SubSeq(s, k + 1, Len(s))>>

RECURSIVE DigitsValue(_, _)
DigitsValue(s, acc) ==
    IF s = <<>> THEN acc
    ELSE DigitsValue(Tail(s), 10 * acc + DigitVal(Head(s)))

\* int(s): surrounding whitespace is dropped, one sign is allowed, then one
\* or more decimal digits; anything else is a ValueError (ok = FALSE).
ParseInt(s) ==
    LET t == Strip(s)
        signed == t # <<>> /\ Head(t) \in {"-", "+"}
        d == IF signed THEN Tail(t) ELSE t
        good == d # <<>> /\ \A k \in 1..Len(d) : d[k] \in Digits
    IN  IF ~good THEN [ok |-> FALSE, val |-> 0]
        ELSE [ok |-> TRUE,
              val |-> IF signed /\ Head(t) = "-"
                      THEN 0 - DigitsValue(d, 0)
                      ELSE DigitsValue(d, 0)]

\* sorted(ports), largest first.
RECURSIVE SortedDescending(_)
SortedDescending(S) ==
    IF S = {} THEN <<>>
    ELSE LET m == CHOOSE x \in S : \A y \in S : x >= y
         IN  <<m>> \o SortedDescending(S \ {m})

\* sorted(ports): the elements of a finite set of integers in ascending order.
RECURSIVE Sorted(_)
Sorted(S) ==
    IF S = {} THEN <<>>
    ELSE LET m == CHOOSE x \in S : \A y \in S : x <= y
         IN  <<m>> \o Sorted(S \ {m})

\* parts = [p.strip() for p in ports_str.split(',') if p.strip()]
RECURSIVE StripAll(_)
StripAll(ps) ==
    IF ps = <<>> THEN <<>>
    ELSE LET p == Strip(Head(ps)) IN
         (IF p # <<>> THEN <<p>> ELSE <<>>) \o StripAll(Tail(ps))

Parts(ports_str) == StripAll(Split(ports_str, ","))

\* ParsePart without the upper limit on a single port.
ParsePartNoUpperLimit(part) ==
    IF Find(part, "-") # 0
    THEN LET ab == SplitOnce(part, "-")
             start == ParseInt(ab[1])
             end == ParseInt(ab[2])
         IN  IF ~start.ok \/ ~end.ok
             THEN [err |-> "range", add |-> {}]
             ELSE IF start.val < MinPort \/ end.val > MaxPort \/ start.val > end.val
             THEN [err |-> "range", add |-> {}]
             ELSE [err |-> "none", add |-> start.val .. end.val]
    ELSE LET p == ParseInt(part)
         IN  IF ~p.ok THEN [err |-> "port", add |-> {}]
             ELSE IF p.val < MinPort
             THEN [err |-> "port", add |-> {}]
             ELSE [err |-> "none", add |-> {p.val}]

\* One token of the loop body of parse_ports: the ports it adds, or the error
\* it raises (err is "range" for "Invalid port range", "port" for "Invalid port").
ParsePart(part) ==
    IF Find(part, "-") # 0
    THEN LET ab == SplitOnce(part, "-")
             start == ParseInt(ab[1])
             end == ParseInt(ab[2])
         IN  IF ~start.ok \/ ~end.ok
             THEN [err |-> "range", add |-> {}]
             ELSE IF start.val < MinPort \/ end.val > MaxPort \/ start.val > end.val
             THEN [err |-> "range", add |-> {}]
             ELSE [err |-> "none", add |-> start.val .. end.val]
    ELSE LET p == ParseInt(part)
         IN  IF ~p.ok THEN [err |-> "port", add |-> {}]
             ELSE IF p.val < MinPort \/ p.val > MaxPort
             THEN [err |-> "port", add |-> {}]
             ELSE [err |-> "none", add |-> {p.val}]

\* ParseLoop that passes over a bad token instead of raising.
RECURSIVE ParseLoopSkipBad(_, _)
ParseLoopSkipBad(parts, ports) ==
    IF parts = <<>> THEN [err |-> "none", token |-> <<>>, ports |-> Sorted(ports)]
    ELSE ParseLoopSkipBad(Tail(parts), ports \cup ParsePart(Head(parts)).add)

\* The for loop of parse_ports: the first bad token raises, naming the token.
RECURSIVE ParseLoop(_, _)
ParseLoop(parts, ports) ==
    IF parts = <<>> THEN [err |-> "none", token |-> <<>>, ports |-> Sorted(ports)]
    ELSE LET r == ParsePart(Head(parts)) IN
         IF r.err # "none"
         THEN [err |-> r.err, token |-> Head(parts), ports |-> <<>>]
         ELSE ParseLoop(Tail(parts), ports \cup r.add)

parse_ports(ports_str) == ParseLoop(Parts(ports_str), {})

(***************************************************************************)
(* Banner text.  Received data is a sequence of byte values; the decoded   *)
(* text is a sequence of code points.                                      *)
(***************************************************************************)
HttpReadMax == 2048
PlainReadMax == 1024
ReplacementChar == 65533

\* bytes.decode(errors='replace') for the byte strings of PeerData: an ASCII
\* byte is its own code point, and a byte that starts no valid UTF-8 sequence
\* (0x80..0xBF, 0xF8..0xFF standing alone) becomes U+FFFD.
RECURSIVE Decode(_)
Decode(data) ==
    IF data = <<>> THEN <<>>
    ELSE <<IF Head(data) < 128 THEN Head(data) ELSE ReplacementChar>>
         \o Decode(Tail(data))

\* The code points str.strip() removes (the ASCII ones).
TextWhitespace == {9, 10, 11, 12, 13, 28, 29, 30, 31, 32}

RECURSIVE TextLStrip(_)
TextLStrip(t) ==
    IF t # <<>> /\ Head(t) \in TextWhitespace THEN TextLStrip(Tail(t)) ELSE t

RECURSIVE TextRStrip(_)
TextRStrip(t) ==
    IF t # <<>> /\ t[Len(t)] \in TextWhitespace
    THEN TextRStrip(SubSeq(t, 1, Len(t) - 1))
    ELSE t

TextStrip(t) == TextRStrip(TextLStrip(t))

\* reader.read(n): at most n of the bytes the peer sent.
ReadUpTo(data, n) == SubSeq(data, 1, IF Len(data) < n THEN Len(data) ELSE n)

(***************************************************************************)
(* The environment: what a peer may send, how an I/O operation may end.    *)
(***************************************************************************)
\* b"" (EOF), b" S\xff\r\n" and b"\r\n"
PeerData == {<<>>, <<32, 83, 255, 13, 10>>, <<13, 10>>}

\* open_connection under wait_for: success, asyncio.TimeoutError,
\* ConnectionRefusedError, another OSError, or an exception that is none of these.
ConnectResults == {"ok", "timeout", "refused", "oserror", "other"}
DrainResults == {"ok", "timeout", "error"}
ReadFailures == {"timeout", "error"}
CallResults == {"ok", "error"}

\* The k-th host of the command line: a name that resolves, an address
\* literal, a name that does not resolve, and so on.
HostName(k) ==
    IF k % 3 = 1 THEN "example.com"
    ELSE IF k % 3 = 2 THEN "10.0.0.1"
    ELSE "no-such-host.invalid"

\* socket.getaddrinfo(host, None)[0][4][0] with the resolver's answers of this
\* run: the first address of the host, or "fail" for the exception raised.
AddrInfo(host) ==
    IF host = "example.com" THEN "93.184.216.34"
    ELSE IF host = "10.0.0.1" THEN "10.0.0.1"
    ELSE "fail"

\* resolve_host: the address, or the host itself when the lookup raised.
resolve_host(host) == IF AddrInfo(host) = "fail" THEN host ELSE AddrInfo(host)

(***************************************************************************)
(* The ports strings the run driver is started with.                       *)
(***************************************************************************)
PortSpecs ==
    { <<>>,                                                 \* ""
      <<"2", "2">>,                                         \* "22"
      <<"8", "0", ",", " ", "2", "2", ",">>,                \* "80, 22,"
      <<"2", "2", ",", "a", "b", "c">>,                     \* "22,abc"
      <<"0", "-", "1", "0">>,                               \* "0-10"
      <<"8", "0", ",", "7", "0", "0", "0", "0">> }          \* "80,70000"

\* Strictly increasing sequences over S of length at most n.
IncSeqs(S, n) == { Sorted(T) : T \in { U \in SUBSET S : Cardinality(U) <= n } }

PortUniverse == {22, 80, 8080}

\* The tokens the ports strings given to parse_ports alone are written from:
\* blank ones, single ports and ranges, inside and outside 1..65535, and
\* tokens that are no integers.  (No token has an underscore or a non-ASCII
\* digit, which int() would also take.)
TokenTexts ==
    { <<>>,
      <<" ">>,
      <<"2", "2">>,
      <<" ", "8", "0">>,
      <<"1">>,
      <<"6", "5", "5", "3", "5">>,
      <<"2", "2", "-", "2", "4">>,
      <<"2", "3", "-", "2", "3">>,
      <<"6", "5", "5", "3", "4", "-", "6", "5", "5", "3", "5">>,
      <<"0">>,
      <<"6", "5", "5", "3", "6">>,
      <<"x">>,
      <<"0", "-", "5">>,
      <<"9", "-", "6", "5", "5", "3", "6">>,
      <<"2", "4", "-", "2", "2">>,
      <<"x", "-", "5">>,
      <<"5", "-", "x">>,
      <<"-", "5">>,
      <<"1", "-", "2", "-", "3">> }

\* The ports string that lists the tokens ts, separated by commas.
RECURSIVE Join(_)
Join(ts) ==
    IF ts = <<>> THEN <<>>
    ELSE IF Len(ts) = 1 THEN ts[1]
    ELSE ts[1] \o <<",">> \o Join(Tail(ts))

TokenSeqs(n) == UNION { [1..k -> TokenTexts] : k \in 0..n }

VARIABLES
    caller,       \* "main_async" or "direct": who called scan_host
    portsArg,     \* args.ports
    tokens,       \* the tokens args.ports was written from (parse_ports alone)
    hosts,        \* main_async: hosts
    concurrency,  \* args.concurrency / scan_host's concurrency
    banner,       \* args.banner / scan_host's banner
    mpc,          \* where the run driver is
    error,        \* the exception parse_ports raised, if it raised
    hostIdx,      \* index in hosts of the host of the current iteration
    ports,        \* main_async: ports / scan_host's ports
    resolved,     \* main_async: resolved, the host scan_host is given
    output,       \* the lines printed so far
    sem,          \* the semaphore's value
    tasks,        \* scan_host: tasks, each with the locals of its worker/try_connect
    doneq,        \* as_completed: the finished tasks not yet consumed
    results       \* scan_host: results

vars == <<caller, portsArg, tokens, hosts, concurrency, banner, mpc, error,
          hostIdx, ports, resolved, output, sem, tasks, doneq, results>>

args == <<caller, portsArg, tokens, hosts, concurrency, banner>>

\* argparse.ArgumentTypeError(f"Invalid port range: {part}") for kind "range",
\* argparse.ArgumentTypeError(f"Invalid port: {part}") for kind "port".
ArgumentTypeError(kind, part) == [kind |-> kind, token |-> part]

NoError == [kind |-> "none", token |-> <<>>]

(***************************************************************************)
(* Outcomes and task state.                                                *)
(***************************************************************************)
\* The tuple (port, is_open, banner_text).
Outcome(port, is_open, btext) == [port |-> port, open |-> is_open, banner |-> btext]

\* How a coroutine ends: it returns an outcome, or an exception leaves it.
Returned(o) == [kind |-> "return", val |-> o]
Raised(p) == [kind |-> "raise", val |-> Outcome(p, FALSE, <<>>)]

\* One I/O call of a probe and how it ended: "ok", "fail" (an exception, a
\* timeout included), and for a read "data" or "eof" (b"").
Op(name, res) == [op |-> name, res |-> res]

\* A task before it runs: waiting for the semaphore.
NewTask(p) ==
    [pc |-> "pending", port |-> p, btext |-> <<>>, sent |-> <<>>, ops |-> <<>>,
     end |-> Raised(p)]

Log(t, name, res) == [t EXCEPT !.ops = Append(@, Op(name, res))]

(***************************************************************************)
(* try_connect.  Each operator is the code one resumption runs, given what *)
(* the environment answered; it yields the task's new state.  pc is the    *)
(* await the task is suspended at, or "returned" once try_connect is left. *)
(***************************************************************************)
TryReturn(t, o) == [t EXCEPT !.pc = "returned", !.end = Returned(o)]

TryRaise(t) == [t EXCEPT !.pc = "returned", !.end = Raised(t.port)]

\* ExceptOuter without its last handler (except Exception): an exception that
\* is none of the three named ones leaves try_connect.
ExceptOuterNamedOnly(t, kind) ==
    IF kind \in {"timeout", "refused", "oserror"}
    THEN TryReturn(t, Outcome(t.port, FALSE, <<>>))
    ELSE TryRaise(t)

\* ExceptOuter returning the banner text read so far.
ExceptOuterKeepsBanner(t, kind) ==
    IF kind \in {"timeout", "refused", "oserror"}
    THEN TryReturn(t, Outcome(t.port, FALSE, t.btext))
    ELSE TryReturn(t, Outcome(t.port, FALSE, t.btext))

\* The handlers of the outer try: (asyncio.TimeoutError, ConnectionRefusedError,
\* OSError) and then Exception; both return (port, False, "").
ExceptOuter(t, kind) ==
    IF kind \in {"timeout", "refused", "oserror"}
    THEN TryReturn(t, Outcome(t.port, FALSE, <<>>))
    ELSE TryReturn(t, Outcome(t.port, FALSE, <<>>))

\* The handler of the banner try: btext = "".
BannerExcept(t) == [t EXCEPT !.btext = <<>>]

\* writer.close(), inside the outer try and outside any other; then the task
\* suspends at writer.wait_closed().
CloseWriter(t, c) ==
    IF c = "ok"
    THEN [Log(t, "close", "ok") EXCEPT !.pc = "wait_closed"]
    ELSE ExceptOuter(Log(t, "close", "fail"), "other")

\* if data: btext = data.decode(errors='replace').strip()
BannerText(t, data) ==
    IF data # <<>> THEN [t EXCEPT !.btext = TextStrip(Decode(data))] ELSE t

\* The request written to an HTTP port, as its lines.
HttpRequest(host) ==
    <<"GET / HTTP/1.0", <<"Host", host>>, <<"User-Agent", "tcp-scanner">>, "">>

\* OnConnect with one more attempt after a first failed connect.
OnConnectRetry(t, host, bannerOn, r, w, c) ==
    IF r # "ok"
    THEN IF Op("connect", "fail") \in { t.ops[k] : k \in DOMAIN t.ops }
         THEN ExceptOuter(Log(t, "connect", "fail"), r)
         ELSE [Log(t, "connect", "fail") EXCEPT !.pc = "connect"]
    ELSE LET t1 == [Log(t, "connect", "ok") EXCEPT !.btext = <<>>] IN
         IF ~bannerOn THEN CloseWriter(t1, c)
         ELSE IF t1.port \in HTTP_PORTS
         THEN IF w = "ok"
              THEN [Log(t1, "write", "ok") EXCEPT !.pc = "drain",
                                                  !.sent = HttpRequest(host)]
              ELSE CloseWriter(BannerExcept(Log(t1, "write", "fail")), c)
         ELSE [t1 EXCEPT !.pc = "read"]

\* The connect attempt ended with r.  On success: btext = "", and with banner
\* the request is written on an HTTP port (w) and the task suspends at drain,
\* or at read on another port; without banner the writer is closed (c).
OnConnect(t, host, bannerOn, r, w, c) ==
    IF r # "ok" THEN ExceptOuter(Log(t, "connect", "fail"), r)
    ELSE LET t1 == [Log(t, "connect", "ok") EXCEPT !.btext = <<>>] IN
         IF ~bannerOn THEN CloseWriter(t1, c)
         ELSE IF t1.port \in HTTP_PORTS
         THEN IF w = "ok"
              THEN [Log(t1, "write", "ok") EXCEPT !.pc = "drain",
                                                  !.sent = HttpRequest(host)]
              ELSE CloseWriter(BannerExcept(Log(t1, "write", "fail")), c)
         ELSE [t1 EXCEPT !.pc = "read"]

\* writer.drain() under wait_for(0.5) ended with r.
OnDrain(t, r, c) ==
    IF r = "ok" THEN [Log(t, "drain", "ok") EXCEPT !.pc = "read"]
    ELSE CloseWriter(BannerExcept(Log(t, "drain", "fail")), c)

\* reader.read(n) under wait_for ended with r: data, or a failure.
OnRead(t, r, c) ==
    IF r.res = "data"
    THEN LET n == IF t.port \in HTTP_PORTS THEN HttpReadMax ELSE PlainReadMax
             data == ReadUpTo(r.data, n)
         IN  CloseWriter(BannerText(Log(t, "read", IF data = <<>> THEN "eof" ELSE "data"),
                                    data), c)
    ELSE CloseWriter(BannerExcept(Log(t, "read", "fail")), c)

\* writer.wait_closed() ended with r (no wait_for around it): an exception is
\* passed over, and (port, True, btext) is returned.
OnWaitClosed(t, r) ==
    TryReturn(Log(t, "wait_closed", IF r = "ok" THEN "ok" ELSE "fail"),
              Outcome(t.port, TRUE, t.btext))

ReadResults ==
    { [res |-> "data", data |-> d] : d \in PeerData }
    \cup { [res |-> f, data |-> <<>>] : f \in ReadFailures }

(***************************************************************************)
(* scan_host: the semaphore, the workers, the consumer.                    *)
(***************************************************************************)
\* CanAcquire off by one: a slot is handed out at value 0 too.
CanAcquireAtZero(value) == value >= 0

\* CanAcquire that keeps one slot back.
CanAcquireAboveOne(value) == value > 1

\* Semaphore.acquire does not wait when the value is positive.
CanAcquire(value) == value > 0

\* WorkerEnd without the handler: the exception leaves the worker.
WorkerEndNoHandler(t) == t

\* worker: try: return await try_connect(...) except Exception: return p, False, ""
WorkerEnd(t) ==
    IF t.end.kind = "raise"
    THEN [Log(t, "worker_except", "caught") EXCEPT
              !.end = Returned(Outcome(t.port, FALSE, <<>>))]
    ELSE t

\* The tasks waiting for the semaphore are woken in the order they started
\* waiting, which is the order of the tasks list.
NextWaiter(i) ==
    /\ tasks[i].pc = "pending"
    /\ \A j \in 1..(i - 1) : tasks[j].pc # "pending"

\* Advance with a worker that leaves the async with block without releasing.
AdvanceNoRelease(i, t2) ==
    IF t2.pc = "returned"
    THEN /\ tasks' = [tasks EXCEPT ![i] = [WorkerEnd(t2) EXCEPT !.pc = "done"]]
         /\ sem' = sem
         /\ doneq' = Append(doneq, i)
    ELSE /\ tasks' = [tasks EXCEPT ![i] = t2]
         /\ UNCHANGED <<sem, doneq>>

\* A task took a step to t2: when try_connect was left, the worker ends, the
\* semaphore is released and the task is done.
Advance(i, t2) ==
    IF t2.pc = "returned"
    THEN /\ tasks' = [tasks EXCEPT ![i] = [WorkerEnd(t2) EXCEPT !.pc = "done"]]
         /\ sem' = sem + 1
         /\ doneq' = Append(doneq, i)
    ELSE /\ tasks' = [tasks EXCEPT ![i] = t2]
         /\ UNCHANGED <<sem, doneq>>

\* async with sem: the task takes a slot, calls try_connect and suspends at
\* the connect.
Admit(i) ==
    /\ mpc = "scan"
    /\ NextWaiter(i)
    /\ CanAcquire(sem)
    /\ sem' = sem - 1
    /\ tasks' = [tasks EXCEPT ![i].pc = "connect"]
    /\ UNCHANGED <<args, error, mpc, hostIdx, ports, resolved, output, doneq, results>>

\* The task takes a slot and the worker's try block ends with an exception
\* that the prober did not turn into an outcome (an unexpected failure where
\* the worker invokes it): the worker's handler returns (p, False, ""), and
\* leaving the async with block releases the slot.
WorkerFault(i) ==
    /\ mpc = "scan"
    /\ NextWaiter(i)
    /\ CanAcquire(sem)
    /\ tasks' = [tasks EXCEPT ![i] =
                    [WorkerEnd(TryRaise(Log(tasks[i], "call", "raise")))
                        EXCEPT !.pc = "done"]]
    /\ sem' = (sem - 1) + 1
    /\ doneq' = Append(doneq, i)
    /\ UNCHANGED <<args, error, mpc, hostIdx, ports, resolved, output, results>>

ConnectDone(i) ==
    /\ mpc = "scan"
    /\ tasks[i].pc = "connect"
    /\ \E r \in ConnectResults, w \in CallResults, c \in CallResults :
          Advance(i, OnConnect(tasks[i], resolved, banner, r, w, c))
    /\ UNCHANGED <<args, error, mpc, hostIdx, ports, resolved, output, results>>

DrainDone(i) ==
    /\ mpc = "scan"
    /\ tasks[i].pc = "drain"
    /\ \E r \in DrainResults, c \in CallResults :
          Advance(i, OnDrain(tasks[i], r, c))
    /\ UNCHANGED <<args, error, mpc, hostIdx, ports, resolved, output, results>>

ReadDone(i) ==
    /\ mpc = "scan"
    /\ tasks[i].pc = "read"
    /\ \E r \in ReadResults, c \in CallResults :
          Advance(i, OnRead(tasks[i], r, c))
    /\ UNCHANGED <<args, error, mpc, hostIdx, ports, resolved, output, results>>

WaitClosedDone(i) ==
    /\ mpc = "scan"
    /\ tasks[i].pc = "wait_closed"
    /\ \E r \in CallResults :
          Advance(i, OnWaitClosed(tasks[i], r))
    /\ UNCHANGED <<args, error, mpc, hostIdx, ports, resolved, output, results>>

\* The timer of the wait_for around the await task i is suspended at fires:
\* the connect (timeout), the drain (0.5) and the read (1.0 or 0.5) have one.
Timeout(i) ==
    /\ mpc = "scan"
    /\ i \in DOMAIN tasks
    /\ \/ /\ tasks[i].pc = "connect"
          /\ Advance(i, OnConnect(tasks[i], resolved, banner, "timeout", "ok", "ok"))
       \/ /\ tasks[i].pc = "drain"
          /\ \E c \in CallResults : Advance(i, OnDrain(tasks[i], "timeout", c))
       \/ /\ tasks[i].pc = "read"
          /\ \E c \in CallResults :
                Advance(i, OnRead(tasks[i], [res |-> "timeout", data |-> <<>>], c))
    /\ UNCHANGED <<args, error, mpc, hostIdx, ports, resolved, output, results>>

\* The printed lines.
OpenLine(host, port, btext) ==
    [kind |-> "open", host |-> host, port |-> port,
     paren |-> btext # <<>>, banner |-> btext]

HeaderLine(host, addr, ps) ==
    [kind |-> "header", host |-> host, addr |-> addr,
     first |-> ps[1], last |-> ps[Len(ps)]]

NoPortsLine == [kind |-> "noports"]

\* Emit without the test of is_open: a line for every outcome.
EmitEvery(host, res) == <<OpenLine(host, res.port, res.banner)>>

\* if is_open: print(...), with the banner in parentheses when there is one.
Emit(host, res) ==
    IF res.open THEN <<OpenLine(host, res.port, res.banner)>> ELSE <<>>

\* Accumulate with results.insert(0, res): the newest outcome first.
AccumulatePrepend(rs, res) == <<res>> \o rs

\* Accumulate inside the test of is_open: only open outcomes are kept.
AccumulateOpen(rs, res) == IF res.open THEN Append(rs, res) ELSE rs

\* results.append(res)
Accumulate(rs, res) == Append(rs, res)

\* Where scan_host returns to.
ReturnTo == IF caller = "main_async" THEN "loop" ELSE "returned"

\* One round of the loop over as_completed: the next finished task is
\* awaited, its outcome appended and its OPEN line printed; after the last
\* one scan_host returns results.  An exception of the task leaves scan_host.
Consume ==
    /\ mpc = "scan"
    /\ doneq # <<>>
    /\ LET e == tasks[Head(doneq)].end IN
       IF e.kind = "raise"
       THEN /\ mpc' = "crashed"
            /\ UNCHANGED <<results, output>>
       ELSE /\ results' = Accumulate(results, e.val)
            /\ output' = output \o Emit(resolved, e.val)
            /\ mpc' = IF Len(doneq) = 1 /\ \A i \in 1..Len(tasks) : tasks[i].pc = "done"
                      THEN ReturnTo ELSE "scan"
    /\ doneq' = Tail(doneq)
    /\ UNCHANGED <<args, error, hostIdx, ports, resolved, sem, tasks>>

\* ScanEnter with asyncio.Semaphore(max(1, concurrency)).
ScanEnterAtLeastOneSlot ==
    /\ sem' = IF concurrency < 1 THEN 1 ELSE concurrency
    /\ tasks' = [i \in 1..Len(ports) |-> NewTask(ports[i])]
    /\ doneq' = <<>>
    /\ results' = <<>>
    /\ mpc' = IF ports = <<>> THEN ReturnTo ELSE "scan"

\* scan_host up to its first await: the semaphore and one task per port; with
\* no port there is nothing to wait for and results is returned at once.
ScanEnter ==
    /\ sem' = concurrency
    /\ tasks' = [i \in 1..Len(ports) |-> NewTask(ports[i])]
    /\ doneq' = <<>>
    /\ results' = <<>>
    /\ mpc' = IF ports = <<>> THEN ReturnTo ELSE "scan"

\* scan_host called on its own.
CallScan ==
    /\ mpc = "call"
    /\ ScanEnter
    /\ UNCHANGED <<args, error, hostIdx, ports, resolved, output>>

(***************************************************************************)
(* main_async                                                              *)
(***************************************************************************)
\* hosts and ports are computed; a bad ports string raises, an empty port
\* list prints a note and returns.
MainStart ==
    /\ mpc = "start"
    /\ LET r == parse_ports(portsArg) IN
       IF r.err # "none"
       THEN /\ mpc' = "failed"
            /\ error' = ArgumentTypeError(r.err, r.token)
            /\ UNCHANGED <<ports, output>>
       ELSE IF r.ports = <<>>
       THEN /\ mpc' = "done"
            /\ output' = Append(output, NoPortsLine)
            /\ UNCHANGED <<ports, error>>
       ELSE /\ mpc' = "loop"
            /\ ports' = r.ports
            /\ UNCHANGED <<output, error>>
    /\ UNCHANGED <<args, hostIdx, resolved, sem, tasks, doneq, results>>

\* ScanAwaited without the await: the loop goes on while the scan runs.
ScanNotAwaited == mpc \in {"loop", "scan"}

\* await scan_host(...): the loop goes on when the scan has returned.
ScanAwaited == mpc = "loop"

\* One iteration of the loop over hosts, up to the first await of scan_host.
HostStep ==
    /\ ScanAwaited
    /\ hostIdx < Len(hosts)
    /\ hostIdx' = hostIdx + 1
    /\ resolved' = resolve_host(hosts[hostIdx + 1])
    /\ output' = Append(output, HeaderLine(hosts[hostIdx + 1], resolved', ports))
    /\ ScanEnter
    /\ UNCHANGED <<args, error, ports>>

\* The loop over hosts is over: main_async returns.
LoopEnd ==
    /\ mpc = "loop"
    /\ hostIdx = Len(hosts)
    /\ mpc' = "done"
    /\ UNCHANGED <<args, error, hostIdx, ports, resolved, output, sem, tasks,
                   doneq, results>>

(***************************************************************************)
(* Specifications.                                                         *)
(***************************************************************************)
NoScanYet ==
    /\ output = <<>>
    /\ sem = 0
    /\ tasks = <<>>
    /\ doneq = <<>>
    /\ results = <<>>

\* The run driver, started with a ports string and a host list.
Init ==
    /\ caller = "main_async"
    /\ portsArg \in PortSpecs
    /\ tokens = <<>>
    /\ hosts \in { [k \in 1..n |-> HostName(k)] : n \in 0..MaxHosts }
    /\ concurrency \in 0..MaxConc
    /\ banner \in BOOLEAN
    /\ mpc = "start"
    /\ error = NoError
    /\ hostIdx = 0
    /\ ports = <<>>
    /\ resolved = ""
    /\ NoScanYet

Next ==
    \/ MainStart
    \/ HostStep
    \/ LoopEnd
    \/ \E i \in 1..Len(tasks) : Admit(i)
    \/ \E i \in 1..Len(tasks) : WorkerFault(i)
    \/ \E i \in 1..Len(tasks) : ConnectDone(i)
    \/ \E i \in 1..Len(tasks) : DrainDone(i)
    \/ \E i \in 1..Len(tasks) : ReadDone(i)
    \/ \E i \in 1..Len(tasks) : WaitClosedDone(i)
    \/ Consume

Spec == Init /\ [][Next]_vars

\* scan_host called on its own with a port set, a limit and the banner flag.
ScanInit ==
    /\ caller = "direct"
    /\ portsArg = <<>>
    /\ tokens = <<>>
    /\ hosts = <<HostName(2)>>
    /\ concurrency \in 0..MaxConc
    /\ banner \in BOOLEAN
    /\ mpc = "call"
    /\ error = NoError
    /\ hostIdx = 1
    /\ ports \in IncSeqs(PortUniverse, MaxPorts)
    /\ resolved = HostName(2)
    /\ NoScanYet

ScanNext ==
    \/ CallScan
    \/ \E i \in 1..Len(tasks) : Admit(i)
    \/ \E i \in 1..Len(tasks) : WorkerFault(i)
    \/ \E i \in 1..Len(tasks) : ConnectDone(i)
    \/ \E i \in 1..Len(tasks) : DrainDone(i)
    \/ \E i \in 1..Len(tasks) : ReadDone(i)
    \/ \E i \in 1..Len(tasks) : WaitClosedDone(i)
    \/ Consume

ScanSpec == ScanInit /\ [][ScanNext]_vars

\* The event loop goes on running what is ready (the call of scan_host, a
\* task the semaphore lets in, the consumer of as_completed), and an await
\* of a probe ends: the connect, drain and read by their wait_for at the
\* latest, wait_closed when the transport has closed.  Every step of a scan
\* is one of these, so the run does not stop while one of them can be taken.
ScanFairness == WF_vars(ScanNext)

ScanFairSpec == ScanInit /\ [][ScanNext]_vars /\ ScanFairness

\* parse_ports called on its own with a ports string.
CallParse ==
    /\ mpc = "parse"
    /\ LET r == parse_ports(portsArg) IN
       IF r.err # "none"
       THEN /\ mpc' = "raised"
            /\ error' = ArgumentTypeError(r.err, r.token)
            /\ UNCHANGED ports
       ELSE /\ mpc' = "parsed"
            /\ ports' = r.ports
            /\ UNCHANGED error
    /\ UNCHANGED <<args, hostIdx, resolved, output, sem, tasks, doneq, results>>

ParseInit ==
    /\ caller = "parse"
    /\ tokens \in TokenSeqs(MaxTokens)
    /\ portsArg = Join(tokens)
    /\ hosts = <<>>
    /\ concurrency = 0
    /\ banner = FALSE
    /\ mpc = "parse"
    /\ error = NoError
    /\ hostIdx = 0
    /\ ports = <<>>
    /\ resolved = ""
    /\ NoScanYet

ParseNext == CallParse

ParseSpec == ParseInit /\ [][ParseNext]_vars

(***************************************************************************)
(* Properties.                                                             *)
(***************************************************************************)
Range(f) == { f[k] : k \in DOMAIN f }

HasOp(t, name, res) == Op(name, res) \in Range(t.ops)

\* The awaits of a probe: a task there has a slot and has not completed.
Suspended == {"connect", "drain", "read", "wait_closed"}

InFlight == { i \in DOMAIN tasks : tasks[i].pc \in Suspended }

Closed(p) == Returned(Outcome(p, FALSE, <<>>))

Completed(i) == tasks[i].pc = "done"

\* C1: with a limit of at least 1, the probes that hold a slot and have not
\* completed (connecting, in the banner attempt or closing) are never more
\* than the limit.
C1_InFlightBounded ==
    concurrency >= 1 => Cardinality(InFlight) <= concurrency

\* The limit is reached with a probe past its connect, and a task waits.
C1_Witness ==
    /\ concurrency >= 1
    /\ Cardinality(InFlight) = concurrency
    /\ \E i \in InFlight : tasks[i].pc \in {"drain", "read", "wait_closed"}
    /\ \E j \in DOMAIN tasks : tasks[j].pc = "pending"

\* C2: when scan_host has returned, results holds one outcome for each port
\* of the port set and nothing else; with no port, no task is created and the
\* empty list is returned by the call itself.
C2_OneOutcomePerPort ==
    /\ mpc = "returned" =>
          /\ Len(results) = Len(ports)
          /\ \A p \in Range(ports) :
                Cardinality({ k \in DOMAIN results : results[k].port = p }) = 1
          /\ \A k \in DOMAIN results : results[k].port \in Range(ports)
    /\ (ports = <<>> /\ mpc # "call") =>
          mpc = "returned" /\ results = <<>> /\ tasks = <<>>

\* scan_host has returned the outcomes of two ports or more, open and not.
C2_Witness ==
    /\ mpc = "returned"
    /\ Len(ports) >= 2
    /\ \E k \in DOMAIN results : results[k].open
    /\ \E k \in DOMAIN results : ~results[k].open

\* C3: no exception leaves try_connect once its body runs, and a probe whose
\* connect attempt failed, of whatever kind and with banner on or off, has
\* returned exactly (port, False, "").
C3_ConnectFailureIsClosed ==
    \A i \in DOMAIN tasks :
       /\ HasOp(tasks[i], "worker_except", "caught") =>
             tasks[i].ops[1] = Op("call", "raise")
       /\ HasOp(tasks[i], "connect", "fail") =>
             Completed(i) /\ tasks[i].end = Closed(tasks[i].port)

\* With banner on, a probe whose connect failed has completed.
C3_Witness ==
    /\ banner
    /\ \E i \in DOMAIN tasks : HasOp(tasks[i], "connect", "fail") /\ Completed(i)

\* A step of the banner attempt failed: the write, the drain or the read.
BannerFailed(t) ==
    HasOp(t, "write", "fail") \/ HasOp(t, "drain", "fail") \/ HasOp(t, "read", "fail")

\* C4: a completed probe whose connect succeeded and whose banner attempt
\* failed has the outcome (port, True, "").
C4_BannerFailureKeepsOpen ==
    \A i \in DOMAIN tasks :
       (Completed(i) /\ HasOp(tasks[i], "connect", "ok") /\ BannerFailed(tasks[i])) =>
          tasks[i].end = Returned(Outcome(tasks[i].port, TRUE, <<>>))

\* C5: a completed probe whose connect succeeded and whose writer.close() or
\* writer.wait_closed() failed has the outcome (port, True, btext), btext
\* being the banner text collected before the close.
C5_CloseFailureKeepsOutcome ==
    \A i \in DOMAIN tasks :
       (/\ Completed(i)
        /\ HasOp(tasks[i], "connect", "ok")
        /\ HasOp(tasks[i], "close", "fail") \/ HasOp(tasks[i], "wait_closed", "fail")) =>
          tasks[i].end = Returned(Outcome(tasks[i].port, TRUE, tasks[i].btext))

\* C6: at every await of a probe a timer is armed whose firing ends the
\* wait, so that the probe goes on whatever the peer does.
C6_EveryAwaitTimed ==
    \A i \in DOMAIN tasks : tasks[i].pc \in Suspended => ENABLED Timeout(i)

\* The lines scan_host has printed: what follows the last header.
RECURSIVE ScanLines(_)
ScanLines(out) ==
    IF out = <<>> \/ out[Len(out)].kind # "open" THEN <<>>
    ELSE Append(ScanLines(SubSeq(out, 1, Len(out) - 1)), out[Len(out)])

\* The OPEN lines of a list of outcomes: one per open outcome, in order, the
\* banner in parentheses when it is not empty.
RECURSIVE OpenLinesOf(_, _)
OpenLinesOf(host, rs) ==
    IF rs = <<>> THEN <<>>
    ELSE (IF Head(rs).open
          THEN <<[kind |-> "open", host |-> host, port |-> Head(rs).port,
                  paren |-> Head(rs).banner # <<>>, banner |-> Head(rs).banner]>>
          ELSE <<>>) \o OpenLinesOf(host, Tail(rs))

\* C7: at every point of a scan the lines printed are the OPEN lines of the
\* open outcomes consumed so far, in that order, and no line stands for a
\* closed port: each line is printed by the step that consumes its outcome.
C7_LinesAreOpenOutcomes ==
    output = OpenLinesOf(resolved, results)

\* The line of an open port, with its banner, is out while another task is
\* still waiting for its slot or probing.
C7_Witness ==
    /\ \E k \in DOMAIN output : output[k].paren
    /\ \E i \in DOMAIN tasks : tasks[i].pc \in Suspended \cup {"pending"}

\* C8: no exception leaves scan_host: a task whose prober failed unexpectedly
\* ends with (p, False, ""), and when scan_host has returned every port has
\* its outcome.
C8_NoErrorEscapes ==
    /\ mpc # "crashed"
    /\ \A i \in DOMAIN tasks :
          HasOp(tasks[i], "call", "raise") =>
             Completed(i) /\ tasks[i].end = Closed(tasks[i].port)
    /\ mpc = "returned" =>
          \A i \in DOMAIN tasks :
             \E k \in DOMAIN results : results[k] = tasks[i].end.val

\* scan_host has returned; the prober failed for one port, another is open.
C8_Witness ==
    /\ mpc = "returned"
    /\ \E i \in DOMAIN tasks : HasOp(tasks[i], "call", "raise")
    /\ \E k \in DOMAIN results : results[k].open

\* The ports strings with a bad token; the run's ports string is one of them.
InvalidSpecs ==
    { s \in PortSpecs :
        LET parts == Parts(s) IN
        \E k \in DOMAIN parts : ParsePart(parts[k]).err # "none" }

InvalidSpec == portsArg \in InvalidSpecs

\* C9: with a bad token in the ports string nothing is scanned: no host is
\* resolved, nothing is printed, and no task or connection exists.
C9_InvalidSpecScansNothing ==
    \/ /\ mpc \in {"start", "failed"}
       /\ hostIdx = 0
       /\ resolved = ""
       /\ ports = <<>>
       /\ output = <<>>
       /\ tasks = <<>>
    \/ ~InvalidSpec

\* The run failed on a ports string that also has a good token, with hosts
\* to scan.
C9_Witness ==
    /\ mpc = "failed"
    /\ hosts # <<>>
    /\ LET parts == Parts(portsArg) IN
       \E k \in DOMAIN parts : ParsePart(parts[k]).err = "none"

\* C10: the scan of the next host begins (its tasks are created, its header
\* is printed) only when every task of the current host has completed and
\* been consumed and its OPEN lines are printed; and every line printed is a
\* line of the host of the current iteration.
C10_HostsOneAfterAnother ==
    [][/\ hostIdx' # hostIdx =>
            /\ hostIdx' = hostIdx + 1
            /\ \A i \in DOMAIN tasks : Completed(i)
            /\ doneq = <<>>
            /\ Len(results) = Len(tasks)
            /\ ScanLines(output) = OpenLinesOf(resolved, results)
       /\ \A k \in (Len(output) + 1)..Len(output') :
            \/ output'[k].kind = "noports"
            \/ output'[k].kind = "header" /\ output'[k].host = hosts[hostIdx']
            \/ output'[k].kind = "open" /\ output'[k].host = resolve_host(hosts[hostIdx'])
       /\ (tasks' # tasks /\ hostIdx' = hostIdx) =>
            DOMAIN tasks' = DOMAIN tasks]_vars

\* The second host is being scanned, after an OPEN line of the first.
C10_Witness ==
    /\ hostIdx = 2
    /\ mpc = "scan"
    /\ \E i \in DOMAIN tasks : tasks[i].pc \in Suspended
    /\ \E k \in DOMAIN output :
          output[k].kind = "open" /\ output[k].host = resolve_host(hosts[1])
(***************************************************************************)
(* parse_ports on its own.  What each token of TokenTexts denotes is       *)
(* written down here by hand: "blank" tokens are ignored, "ports" tokens   *)
(* denote a set of ports, "bad" tokens are the ones that are no port and   *)
(* no range of ports within 1..65535.                                      *)
(***************************************************************************)
TokenMeaning ==
    { [text |-> <<>>, class |-> "blank", ports |-> {}],
      [text |-> <<" ">>, class |-> "blank", ports |-> {}],
      [text |-> <<"2", "2">>, class |-> "ports", ports |-> {22}],
      [text |-> <<" ", "8", "0">>, class |-> "ports", ports |-> {80}],
      [text |-> <<"1">>, class |-> "ports", ports |-> {1}],
      [text |-> <<"6", "5", "5", "3", "5">>, class |-> "ports", ports |-> {65535}],
      [text |-> <<"2", "2", "-", "2", "4">>, class |-> "ports", ports |-> {22, 23, 24}],
      [text |-> <<"2", "3", "-", "2", "3">>, class |-> "ports", ports |-> {23}],
      [text |-> <<"6", "5", "5", "3", "4", "-", "6", "5", "5", "3", "5">>,
       class |-> "ports", ports |-> {65534, 65535}],
      [text |-> <<"0">>, class |-> "bad", ports |-> {}],
      [text |-> <<"6", "5", "5", "3", "6">>, class |-> "bad", ports |-> {}],
      [text |-> <<"x">>, class |-> "bad", ports |-> {}],
      [text |-> <<"0", "-", "5">>, class |-> "bad", ports |-> {}],
      [text |-> <<"9", "-", "6", "5", "5", "3", "6">>, class |-> "bad", ports |-> {}],
      [text |-> <<"2", "4", "-", "2", "2">>, class |-> "bad", ports |-> {}],
      [text |-> <<"x", "-", "5">>, class |-> "bad", ports |-> {}],
      [text |-> <<"5", "-", "x">>, class |-> "bad", ports |-> {}],
      [text |-> <<"-", "5">>, class |-> "bad", ports |-> {}],
      [text |-> <<"1", "-", "2", "-", "3">>, class |-> "bad", ports |-> {}] }

Meaning(text) == CHOOSE m \in TokenMeaning : m.text = text

Denoted(ts) == UNION { Meaning(ts[k]).ports : k \in DOMAIN ts }

BadTokens(ts) == { k \in DOMAIN ts : Meaning(ts[k]).class = "bad" }

StrictlyIncreasing(seq) == \A k \in 1..(Len(seq) - 1) : seq[k] < seq[k + 1]

ParseReturned == caller = "parse" /\ mpc # "parse"

\* C11: for a ports string all of whose tokens are valid, parse_ports returns
\* the strictly increasing sequence (so without duplicates) of ports within
\* 1..65535 whose elements are exactly the union of what the tokens denote;
\* a string with no token that is not blank gives the empty sequence and no
\* error.
C11_ParsedIsSortedUnion ==
    (ParseReturned /\ BadTokens(tokens) = {}) =>
        /\ mpc = "parsed"
        /\ error = NoError
        /\ StrictlyIncreasing(ports)
        /\ \A k \in DOMAIN ports : ports[k] >= 1 /\ ports[k] <= 65535
        /\ Range(ports) = Denoted(tokens)
        /\ (\A k \in DOMAIN tokens : Meaning(tokens[k]).class = "blank")
              => ports = <<>>

\* A range and a port inside it, given in decreasing order, have been parsed.
C11_Witness ==
    /\ ParseReturned
    /\ mpc = "parsed"
    /\ Len(tokens) = 2
    /\ Cardinality(Meaning(tokens[1]).ports) > 1
    /\ Meaning(tokens[2]).ports \subseteq Meaning(tokens[1]).ports
    /\ Meaning(tokens[2]).ports # {}
    /\ Len(ports) = 3

\* C12: parse_ports raises, and returns no ports, whenever some token is a
\* range A-B with A or B no integer, A < 1, B > 65535 or A > B, or a single
\* port that is no integer within 1..65535; the error carries the token that
\* is at fault (the first one, when there are several).
C12_BadTokenRaises ==
    (ParseReturned /\ BadTokens(tokens) # {}) =>
        /\ mpc = "raised"
        /\ ports = <<>>
        /\ error.kind \in {"range", "port"}
        /\ LET first == CHOOSE k \in BadTokens(tokens) :
                            \A j \in BadTokens(tokens) : k <= j
           IN  error.token = tokens[first]

\* A valid token came first and the bad one after it: the ports of the
\* valid one are not returned.
C12_Witness ==
    /\ ParseReturned
    /\ mpc = "raised"
    /\ Len(tokens) = 2
    /\ Meaning(tokens[1]).class = "ports"
    /\ Meaning(tokens[2]).class = "bad"
    /\ error.token = tokens[2]

\* C13: in every outcome, as try_connect returns it and as scan_host's
\* result holds it, the banner is not empty only if the port is open, banner
\* collection was asked for and a read returned data; otherwise it is "".
C13_BannerOnlyFromData ==
    /\ \A i \in DOMAIN tasks :
          (tasks[i].pc = "done" /\ tasks[i].end.kind = "return") =>
             LET o == tasks[i].end.val IN
             \/ o.banner = <<>>
             \/ o.open /\ banner /\ HasOp(tasks[i], "read", "data")
    /\ \A k \in DOMAIN results :
          \/ results[k].banner = <<>>
          \/ /\ results[k].open
             /\ banner
             /\ \E i \in DOMAIN tasks :
                   /\ tasks[i].port = results[k].port
                   /\ HasOp(tasks[i], "read", "data")

\* One result has a banner, and another task that read data has no banner:
\* its writer.close() raised, or the data was white space only.
C13_Witness ==
    /\ \E k \in DOMAIN results : results[k].banner # <<>>
    /\ \E i \in DOMAIN tasks :
          /\ tasks[i].pc = "done"
          /\ HasOp(tasks[i], "read", "data")
          /\ tasks[i].end.val.banner = <<>>

\* A task that holds a slot of the semaphore.
Holding(t) == t.pc \in Suspended

\* C14: slots are taken and given back in pairs.  While scan_host runs and
\* when it has returned, the free slots (the semaphore's value) and the tasks
\* holding one add up to the limit, and at the return every slot is free.  A
\* task takes a slot only as it leaves Pending, one slot, with a free slot
\* there; it gives one slot back as it completes, however the prober ended;
\* and a completed task takes none again.
C14_SlotsPaired ==
    /\ [](mpc \in {"scan", "returned"} =>
             sem + Cardinality({ i \in DOMAIN tasks : Holding(tasks[i]) }) = concurrency)
    /\ [](mpc = "returned" =>
             sem = concurrency /\ \A i \in DOMAIN tasks : ~Holding(tasks[i]))
    /\ [][mpc = "scan" =>
             \A i \in DOMAIN tasks :
                /\ (~Holding(tasks[i]) /\ Holding(tasks'[i])) =>
                      tasks[i].pc = "pending" /\ sem > 0 /\ sem' = sem - 1
                /\ (Holding(tasks[i]) /\ ~Holding(tasks'[i])) =>
                      tasks'[i].pc = "done" /\ sem' = sem + 1
                /\ (tasks[i].pc = "pending" /\ tasks'[i].pc = "done") =>
                      sem > 0 /\ sem' = sem
                /\ tasks[i].pc = "done" => tasks'[i].pc = "done"
                /\ tasks'[i].pc = "pending" => tasks[i].pc = "pending"]_vars

\* scan_host has returned with a limit of 1 after two probes, one ended by an
\* exception the worker caught and one by a return of the prober.
C14_Witness ==
    /\ mpc = "returned"
    /\ concurrency = 1
    /\ sem = 1
    /\ \E i \in DOMAIN tasks : HasOp(tasks[i], "worker_except", "caught")
    /\ \E i \in DOMAIN tasks : HasOp(tasks[i], "wait_closed", "ok")

\* The ports of the completed tasks in the order the tasks completed, as
\* far as the state keeps it: the outcomes taken into results, then the
\* tasks as_completed has yet to hand over.
CompletionOrder ==
    [k \in 1..Len(results) |-> results[k].port]
        \o [k \in 1..Len(doneq) |-> tasks[doneq[k]].port]

Completing == { i \in DOMAIN tasks : tasks[i].pc # "done" /\ tasks'[i].pc = "done" }

\* C15: results is in completion order.  A task that completes goes to the
\* end of the completion order, behind every task that completed before;
\* taking an outcome into results never changes that order; each entry of
\* results is the outcome of its task; and when scan_host returns, results
\* is the whole completion order.
C15_ResultsInCompletionOrder ==
    /\ [][mpc = "scan" =>
             /\ Cardinality(Completing) <= 1
             /\ Completing = {} => CompletionOrder' = CompletionOrder
             /\ \A i \in Completing :
                   CompletionOrder' = Append(CompletionOrder, tasks[i].port)]_vars
    /\ [](\A k \in DOMAIN results :
             \E i \in DOMAIN tasks :
                tasks[i].pc = "done" /\ tasks[i].end = Returned(results[k]))
    /\ [](mpc = "returned" => doneq = <<>> /\ Len(results) = Len(tasks))

\* scan_host has returned the outcome of the second port before that of the
\* first one: the second task completed first.
C15_Witness ==
    /\ mpc = "returned"
    /\ Len(results) = 2
    /\ results[1].port = ports[2]
    /\ results[2].port = ports[1]

\* How far a task has come: Pending (0), Admitted and Probing (1 at the
\* connect, then the banner attempt and the close), Completed (5).
Stage(t) ==
    CASE t.pc = "pending" -> 0
      [] t.pc = "connect" -> 1
      [] t.pc = "drain" -> 2
      [] t.pc = "read" -> 3
      [] t.pc = "wait_closed" -> 4
      [] t.pc = "done" -> 5

ConnectAttempts(t) ==
    Cardinality({ k \in DOMAIN t.ops : t.ops[k].op = "connect" })

\* C16: within a scan a task only moves forward, from Pending through
\* Admitted and Probing to Completed; what it has done stays done; it
\* leaves Pending (is admitted) once and never returns there, so a port is
\* admitted at most once; its connect is attempted at most once; and the
\* outcome of a completed task never changes.
C16_TasksOnlyForward ==
    /\ [][mpc = "scan" =>
             /\ DOMAIN tasks' = DOMAIN tasks
             /\ \A i \in DOMAIN tasks :
                   /\ tasks'[i].port = tasks[i].port
                   /\ Stage(tasks'[i]) >= Stage(tasks[i])
                   /\ tasks'[i] # tasks[i] => Stage(tasks'[i]) > Stage(tasks[i])
                   /\ Len(tasks'[i].ops) >= Len(tasks[i].ops)
                   /\ SubSeq(tasks'[i].ops, 1, Len(tasks[i].ops)) = tasks[i].ops
                   /\ tasks[i].pc = "done" => tasks'[i] = tasks[i]]_vars
    /\ [](\A i \in DOMAIN tasks :
             /\ ConnectAttempts(tasks[i]) <= 1
             /\ Stage(tasks[i]) \in 2..4 => HasOp(tasks[i], "connect", "ok")
             /\ \A j \in DOMAIN tasks : tasks[i].port = tasks[j].port => i = j)

\* A probe went through every stage (connect, drain, read, close) and
\* completed while another task is still at an earlier one.
C16_Witness ==
    /\ \E i \in DOMAIN tasks :
          /\ tasks[i].pc = "done"
          /\ HasOp(tasks[i], "drain", "ok")
          /\ HasOp(tasks[i], "read", "data")
          /\ HasOp(tasks[i], "wait_closed", "ok")
    /\ \E j \in DOMAIN tasks : tasks[j].pc \in {"pending", "connect", "read"}

\* C17: with a limit of at least 1, a fair event loop and probes whose
\* awaits all end, a call of scan_host leads to its return, every task
\* having left Pending and completed with an outcome, and every outcome
\* being in results.
C17_ScanTerminates ==
    (mpc = "call" /\ concurrency >= 1) ~>
       (/\ mpc = "returned"
        /\ Len(tasks) = Len(ports)
        /\ \A i \in DOMAIN tasks :
              tasks[i].pc = "done" /\ tasks[i].end.kind = "return"
        /\ Len(results) = Len(ports))

\* With a limit of 1 and two ports, the second task waits for the slot the
\* first one holds.
C17_Witness ==
    /\ concurrency = 1
    /\ mpc = "scan"
    /\ Len(tasks) = 2
    /\ tasks[1].pc \in Suspended
    /\ tasks[2].pc = "pending"
    /\ sem = 0

\* The I/O a probe has done on its connection, by operation.
OpsOf(t, names) == { k \in DOMAIN t.ops : t.ops[k].op \in names }

\* A task whose connect succeeded and that is past the step after it.
Connected(t) == HasOp(t, "connect", "ok")

\* C18: after a successful connect with banner on, the prober writes a
\* request if and only if the port is one of 80, 443, 8000, 8080, 8443, and
\* its write and its drain come before its read; on any other port it
\* writes nothing and only reads; with banner off it neither writes nor
\* reads.
C18_RequestOnlyOnHttpPorts ==
    \A i \in DOMAIN tasks :
       LET t == tasks[i]
           http == t.port \in {80, 443, 8000, 8080, 8443}
       IN  /\ ~Connected(t) => OpsOf(t, {"write", "drain", "read"}) = {}
           /\ (Connected(t) /\ ~banner) =>
                 OpsOf(t, {"write", "drain", "read"}) = {} /\ t.sent = <<>>
           /\ (Connected(t) /\ banner /\ http) =>
                 /\ Cardinality(OpsOf(t, {"write"})) = 1
                 /\ HasOp(t, "write", "ok") <=> t.sent # <<>>
                 /\ \A r \in OpsOf(t, {"read"}) :
                       /\ \E w \in OpsOf(t, {"write"}) : w < r /\ t.ops[w].res = "ok"
                       /\ \E d \in OpsOf(t, {"drain"}) : d < r /\ t.ops[d].res = "ok"
                 /\ \A d \in OpsOf(t, {"drain"}) : \E w \in OpsOf(t, {"write"}) : w < d
                 /\ t.pc = "read" => HasOp(t, "drain", "ok")
           /\ (Connected(t) /\ banner /\ ~http) =>
                 /\ OpsOf(t, {"write", "drain"}) = {}
                 /\ t.sent = <<>>
                 /\ t.pc = "read" \/ Cardinality(OpsOf(t, {"read"})) = 1

\* With banner on, the probe of port 8080 has written, drained and read,
\* and the probe of port 22 has read without writing.
C18_Witness ==
    /\ banner
    /\ \E i \in DOMAIN tasks :
          /\ tasks[i].port = 8080
          /\ HasOp(tasks[i], "write", "ok")
          /\ HasOp(tasks[i], "drain", "ok")
          /\ OpsOf(tasks[i], {"read"}) # {}
    /\ \E j \in DOMAIN tasks :
          /\ tasks[j].port = 22
          /\ OpsOf(tasks[j], {"read"}) # {}
          /\ tasks[j].sent = <<>>

\* C19: the Host header of a request written to an HTTP port carries the
\* host as the user gave it (the host of the current iteration of
\* main_async), also when resolve_host mapped it to another address.
C19_HostHeaderIsOriginalHost ==
    \A i \in DOMAIN tasks :
       tasks[i].sent # <<>> =>
          tasks[i].sent[2] = <<"Host", hosts[hostIdx]>>

\* C20: with a limit of 0 and a port set that is not empty, once scan_host
\* is called for the first host no task ever leaves Pending: no connect is
\* attempted, no outcome is produced, no OPEN line is printed, scan_host
\* does not return, and no later host is scanned.
C20_ZeroLimitNeverProgresses ==
    (concurrency = 0 /\ ports # <<>> /\ hostIdx >= 1) =>
       /\ hostIdx = 1
       /\ mpc = "scan"
       /\ sem = 0
       /\ Len(tasks) = Len(ports)
       /\ \A i \in DOMAIN tasks : tasks[i].pc = "pending" /\ tasks[i].ops = <<>>
       /\ doneq = <<>>
       /\ results = <<>>
       /\ \A k \in DOMAIN output : output[k].kind = "header"
       /\ Len(output) = 1

\* With a limit of 0 the scan of the first of two hosts has begun: its
\* tasks wait and the second host is still to come.
C20_Witness ==
    /\ concurrency = 0
    /\ Len(hosts) = 2
    /\ hostIdx = 1
    /\ mpc = "scan"
    /\ Len(tasks) >= 2
    /\ \A i \in DOMAIN tasks : tasks[i].pc = "pending"
    /\ ~ENABLED Next

=============================================================================
